---- MODULE Spec2Model ----
(***************************************************************************)
(* The Colour cog of octocat (octocat/exts/utils/colour.py): one slash     *)
(* command group whose sub-commands validate a colour given as RGB, HSV,   *)
(* HSL, CMYK, hex code or name, normalise it to an RGB triple and answer   *)
(* with every other representation and the closest palette name.          *)
(*                                                                         *)
(* Strings are sequences of one-character strings.  Floating-point values  *)
(* are exact rationals n/d kept as integer pairs; rounding a double to an  *)
(* integer is the one place the double's error shows (see Nearest).        *)
(***************************************************************************)
EXTENDS Integers, Sequences, FiniteSets, TLC

(***************************************************************************)
(* Bounds of the model.                                                    *)
(***************************************************************************)
\* RGB channel arguments: GridSize + 1 evenly spread values of 0..255
GridSize == 6
\* percent arguments (saturation, value, lightness, c, m, y, k): PercentGrid + 1 values of 0..100
PercentGrid == 4
\* hue arguments: HueGrid + 1 values of 0..360
HueGrid == 12
\* hex arguments: every string over HexAlphabet of at most MaxShortHex characters
MaxShortHex == 4
\* name arguments: every string over NameAlphabet of at most MaxNameLen characters
MaxNameLen == 4

(***************************************************************************)
(* Characters.                                                             *)
(***************************************************************************)
Digits == <<"0", "1", "2", "3", "4", "5", "6", "7", "8", "9">>
LowerCase == <<"a", "b", "c", "d", "e", "f", "g", "h", "i", "j", "k", "l", "m",
               "n", "o", "p", "q", "r", "s", "t", "u", "v", "w", "x", "y", "z">>
UpperCase == <<"A", "B", "C", "D", "E", "F", "G", "H", "I", "J", "K", "L", "M",
               "N", "O", "P", "Q", "R", "S", "T", "U", "V", "W", "X", "Y", "Z">>

Range(s) == {s[i] : i \in DOMAIN s}
IndexOf(s, c) == CHOOSE i \in DOMAIN s : s[i] = c

Letters == Range(LowerCase) \cup Range(UpperCase)
Alphanumerics == Range(Digits) \cup Letters
\* c.lower() and c.upper() of each letter
LowerOf == [c \in Letters |-> IF c \in Range(UpperCase) THEN LowerCase[IndexOf(UpperCase, c)] ELSE c]
UpperOf == [c \in Letters |-> IF c \in Range(LowerCase) THEN UpperCase[IndexOf(LowerCase, c)] ELSE c]

\* str.lower() and str.upper()
lower_char(c) == IF c \in Letters THEN LowerOf[c] ELSE c
upper_char(c) == IF c \in Letters THEN UpperOf[c] ELSE c
lower(s) == [i \in DOMAIN s |-> lower_char(s[i])]
upper(s) == [i \in DOMAIN s |-> upper_char(s[i])]
isalnum(c) == c \in Alphanumerics

\* string.hexdigits = "0123456789abcdefABCDEF"
hexdigits == Range(Digits) \cup {LowerCase[i] : i \in 1..6} \cup {UpperCase[i] : i \in 1..6}
\* the sixteen digits hex() writes, in order
HexChars == Digits \o SubSeq(LowerCase, 1, 6)
\* int(c, 16) of each hexadecimal digit, either case
Int16Of == [c \in hexdigits |-> IndexOf(HexChars, lower_char(c)) - 1]
int16(c) == Int16Of[c]

Max(S) == CHOOSE m \in S : \A y \in S : y <= m
Min(S) == CHOOSE m \in S : \A y \in S : m <= y

(***************************************************************************)
(* Rounding a double to an integer.  The operand is a double computed by a *)
(* few correctly rounded operations from integers, so it lies within a few *)
(* ulps of the exact quotient n/d (d > 0, n >= 0).  Every quotient here    *)
(* has d < 2^21, so unless n/d is exactly a half-integer the double is on  *)
(* the same side of the half as n/d and rounds as n/d does.  When n/d is   *)
(* exactly k + 1/2 the double may be below, on or above the half:          *)
(* 255 * (1 - 0.9) rounds to 25 and 255 * (1 - 0.7) to 77.  Both           *)
(* neighbours are then possible results.                                   *)
(***************************************************************************)
Nearest(n, d) ==
    LET q == n \div d
        r == n % d
    IN  IF 2 * r < d THEN {q}
        ELSE IF 2 * r > d THEN {q + 1}
        ELSE {q, q + 1}

\* Python's round(x) of the double x = n/d
round(n, d) == Nearest(n, d)
\* Pillow's int(x * 255 + 0.5) of the double x = n/d
to_byte(n, d) == Nearest(255 * n, d)

(***************************************************************************)
(* RGB -> HSV, HSL, CMYK, hex: the conversions shown in the response.      *)
(* Each returns the set of results the doubles allow (one result unless a  *)
(* rounded quotient is exactly a half-integer).                            *)
(***************************************************************************)

\* hue_sixths with the operands of the green branch swapped
hue_sixths_swapped(rgb, maxc, rangec) ==
    IF rgb[1] = maxc THEN rgb[2] - rgb[3]
    ELSE IF rgb[2] = maxc THEN 2 * rangec + rgb[1] - rgb[3]
    ELSE 4 * rangec + rgb[1] - rgb[2]

\* colorsys hue of an RGB triple with rangec = maxc - minc > 0, in sixths of
\* a turn times rangec: bc - gc, 2 + rc - bc or 4 + gc - rc.
hue_sixths(rgb, maxc, rangec) ==
    IF rgb[1] = maxc THEN rgb[2] - rgb[3]
    ELSE IF rgb[2] = maxc THEN 2 * rangec + rgb[3] - rgb[1]
    ELSE 4 * rangec + rgb[1] - rgb[2]

\* hue_degrees without the "% 1.0"
hue_degrees_without_mod(rgb, maxc, rangec) ==
    round(60 * hue_sixths(rgb, maxc, rangec), rangec)

\* round(h * 360) with h = (hue_sixths / 6) % 1.0
hue_degrees(rgb, maxc, rangec) ==
    round((60 * hue_sixths(rgb, maxc, rangec)) % (360 * rangec), rangec)

_rgb_to_hsv(rgb) ==
    LET maxc == Max(Range(rgb))
        minc == Min(Range(rgb))
        rangec == maxc - minc
    IN  IF minc = maxc
        THEN {<<0, 0, v>> : v \in round(100 * maxc, 255)}
        ELSE {<<h, s, v>> : h \in hue_degrees(rgb, maxc, rangec),
                            s \in round(100 * rangec, maxc),
                            v \in round(100 * maxc, 255)}

_rgb_to_hsl(rgb) ==
    LET maxc == Max(Range(rgb))
        minc == Min(Range(rgb))
        sumc == maxc + minc
        rangec == maxc - minc
    IN  IF minc = maxc
        THEN {<<0, 0, l>> : l \in round(100 * sumc, 510)}
        ELSE {<<h, s, l>> : h \in hue_degrees(rgb, maxc, rangec),
                            s \in IF sumc <= 255 THEN round(100 * rangec, sumc)
                                  ELSE round(100 * rangec, 510 - sumc),
                            l \in round(100 * sumc, 510)}

\* is_black with the guard for black left out
never_black(rgb) == FALSE

\* not any(rgb_list): every channel is 0.0
is_black(rgb) == \A i \in 1..3 : rgb[i] = 0

\* The divisor (1 - k) of _rgb_to_cmyk with k = 1 - max(rgb_list), times 255.
cmyk_divisor(rgb) == Max(Range(rgb))

\* _rgb_to_cmyk raises ZeroDivisionError when it reaches the division with
\* a divisor of 0.0.
cmyk_raises(rgb) == ~is_black(rgb) /\ cmyk_divisor(rgb) = 0

\* round((1 - x/255 - k) * 100 / (1 - k)), for a divisor that is not 0
cmyk_channel(x, divisor) == round(100 * (divisor - x), divisor)

_rgb_to_cmyk(rgb) ==
    IF is_black(rgb)
    THEN {<<0, 0, 0, 100>>}
    ELSE LET divisor == cmyk_divisor(rgb)
         IN  {<<c, m, y, k>> : c \in cmyk_channel(rgb[1], divisor),
                               m \in cmyk_channel(rgb[2], divisor),
                               y \in cmyk_channel(rgb[3], divisor),
                               k \in round(100 * (255 - divisor), 255)}

\* hex(val)[2:].zfill(2) for val in 0..255
hex2(val) ==
    LET digits == IF val < 16 THEN <<HexChars[val + 1]>>
                  ELSE <<HexChars[(val \div 16) + 1], HexChars[(val % 16) + 1]>>
    IN  IF Len(digits) < 2 THEN <<"0">> \o digits ELSE digits

_rgb_to_hex(rgb) == upper(<<"#">> \o hex2(rgb[1]) \o hex2(rgb[2]) \o hex2(rgb[3]))

(***************************************************************************)
(* HSV, HSL, CMYK, hex -> RGB.                                             *)
(***************************************************************************)

\* colorsys.hsv_to_rgb(h/360, s/100, v/100), each channel as a pair
\* <<numerator, denominator>>.  i = int(h * 6.0), f = h * 6.0 - i.
hsv_to_rgb(h, s, v) ==
    IF s = 0 THEN << <<v, 100>>, <<v, 100>>, <<v, 100>> >>
    ELSE LET i == (h \div 60) % 6
             f == h % 60
             vv == <<v, 100>>
             p == <<v * (100 - s), 10000>>
             q == <<v * (6000 - s * f), 600000>>
             t == <<v * (6000 - s * (60 - f)), 600000>>
         IN  CASE i = 0 -> <<vv, t, p>>
               [] i = 1 -> <<q, vv, p>>
               [] i = 2 -> <<p, vv, t>>
               [] i = 3 -> <<p, q, vv>>
               [] i = 4 -> <<t, p, vv>>
               [] i = 5 -> <<vv, p, q>>

\* colorsys._v(m1, m2, hue) with m1, m2 in 1/10000 and hue in degrees;
\* the result is in 1/600000.
_v(m1, m2, hue) ==
    LET hh == hue % 360
    IN  IF hh < 60 THEN 60 * m1 + (m2 - m1) * hh
        ELSE IF hh < 180 THEN 60 * m2
        ELSE IF hh < 240 THEN 60 * m1 + (m2 - m1) * (240 - hh)
        ELSE 60 * m1

\* colorsys.hls_to_rgb(h/360, l/100, s/100)
hls_to_rgb(h, l, s) ==
    IF s = 0 THEN << <<l, 100>>, <<l, 100>>, <<l, 100>> >>
    ELSE LET m2 == IF l <= 50 THEN l * (100 + s) ELSE 100 * l + 100 * s - l * s
             m1 == 200 * l - m2
         IN  << <<_v(m1, m2, h + 120), 600000>>,
                <<_v(m1, m2, h), 600000>>,
                <<_v(m1, m2, h - 120), 600000>> >>

\* the RGB triples a triple of rational channels can be rendered to
to_bytes(f) == {<<r, g, b>> : r \in to_byte(f[1][1], f[1][2]),
                             g \in to_byte(f[2][1], f[2][2]),
                             b \in to_byte(f[3][1], f[3][2])}

\* ImageColor.getrgb("hsv(h, s%, v%)") and ImageColor.getrgb("hsl(h, s%, l%)")
getrgb_hsv(h, s, v) == to_bytes(hsv_to_rgb(h, s, v))
getrgb_hsl(h, s, l) == to_bytes(hls_to_rgb(h, l, s))

\* cmyk_to_byte with the key factor left out
cmyk_to_byte_without_key(x, key) == round(255 * (100 - x), 100)

\* round(255 * (1 - x/100) * (1 - key/100))
cmyk_to_byte(x, key) == round(255 * (100 - x) * (100 - key), 10000)

cmyk_to_rgb(c, m, y, k) ==
    {<<r, g, b>> : r \in cmyk_to_byte(c, k), g \in cmyk_to_byte(m, k), b \in cmyk_to_byte(y, k)}

\* getrgb_hex without the lower-casing: only the digits 0-9a-f are read
getrgb_hex_lower_only(color) ==
    LET c == color
        n == Len(c)
        ok == n >= 1 /\ c[1] = "#" /\ \A i \in 2..n : c[i] \in Range(HexChars)
        short(i) == int16(c[i]) * 16 + int16(c[i])
        long(i) == int16(c[i]) * 16 + int16(c[i + 1])
    IN  IF ok /\ n = 4 THEN <<short(2), short(3), short(4)>>
        ELSE IF ok /\ n = 5 THEN <<short(2), short(3), short(4), short(5)>>
        ELSE IF ok /\ n = 7 THEN <<long(2), long(4), long(6)>>
        ELSE IF ok /\ n = 9 THEN <<long(2), long(4), long(6), long(8)>>
        ELSE <<>>

\* ImageColor.getrgb(color) for a "#..." code: the string is lower-cased,
\* then #rgb, #rgba, #rrggbb and #rrggbbaa are read; a 4- or 8-digit code
\* gives four channels.  Anything else is no colour specifier and raises
\* ValueError: the empty tuple stands for that.
getrgb_hex(color) ==
    LET c == lower(color)
        n == Len(c)
        ok == n >= 1 /\ c[1] = "#" /\ \A i \in 2..n : c[i] \in hexdigits
        short(i) == int16(c[i]) * 16 + int16(c[i])
        long(i) == int16(c[i]) * 16 + int16(c[i + 1])
    IN  IF ok /\ n = 4 THEN <<short(2), short(3), short(4)>>
        ELSE IF ok /\ n = 5 THEN <<short(2), short(3), short(4), short(5)>>
        ELSE IF ok /\ n = 7 THEN <<long(2), long(4), long(6)>>
        ELSE IF ok /\ n = 9 THEN <<long(2), long(4), long(6), long(8)>>
        ELSE <<>>

(***************************************************************************)
(* rapidfuzz.process.extractOne(query, choices, score_cutoff=80) with its  *)
(* defaults: processor utils.default_process and scorer fuzz.WRatio (the   *)
(* defaults of rapidfuzz 1.x and 2.x, the releases this cog was written    *)
(* against; from 3.0 on no processor is applied unless one is passed).     *)
(* Scores are rationals <<numerator, denominator>> of the 0..100 scale.    *)
(* The strings scored here hold no inner white space (hex codes, and       *)
(* one-word names and queries), where token_sort_ratio and token_set_ratio *)
(* score no higher than ratio and partial_token_ratio no higher than       *)
(* partial_ratio, so WRatio is decided by ratio and partial_ratio.         *)
(***************************************************************************)
SCORE_CUTOFF == 80

RECURSIVE strip_left(_)
strip_left(s) == IF Len(s) > 0 /\ Head(s) = " " THEN strip_left(Tail(s)) ELSE s
RECURSIVE strip_right(_)
strip_right(s) ==
    IF Len(s) > 0 /\ s[Len(s)] = " " THEN strip_right(SubSeq(s, 1, Len(s) - 1)) ELSE s

\* default_process without the lower-casing
default_process_keep_case(s) ==
    strip_right(strip_left([i \in DOMAIN s |-> IF isalnum(s[i]) THEN s[i] ELSE " "]))

\* utils.default_process: every character that is not alphanumeric becomes
\* a space, the string is lower-cased and stripped of outer white space
default_process(s) ==
    strip_right(strip_left([i \in DOMAIN s |-> IF isalnum(s[i]) THEN lower_char(s[i]) ELSE " "]))

\* one row of the longest-common-subsequence table: prev is the row of the
\* prefix before character c, acc the cells of the new row so far
RECURSIVE lcs_row(_, _, _, _)
lcs_row(prev, c, b, acc) ==
    IF Len(acc) = Len(b) THEN acc
    ELSE LET j == Len(acc) + 1
             left == IF j = 1 THEN 0 ELSE acc[j - 1]
             diag == IF j = 1 THEN 0 ELSE prev[j - 1]
             cell == IF c = b[j] THEN diag + 1
                     ELSE IF prev[j] >= left THEN prev[j] ELSE left
         IN  lcs_row(prev, c, b, Append(acc, cell))

RECURSIVE lcs_rows(_, _, _, _)
lcs_rows(a, b, i, prev) ==
    IF i > Len(a) THEN prev ELSE lcs_rows(a, b, i + 1, lcs_row(prev, a[i], b, <<>>))

\* length of the longest common subsequence of a and b
lcs(a, b) ==
    IF Len(a) = 0 \/ Len(b) = 0 THEN 0
    ELSE lcs_rows(a, b, 1, [j \in 1..Len(b) |-> 0])[Len(b)]

score_lt(p, q) == p[1] * q[2] < q[1] * p[2]
score_ge(p, q) == ~score_lt(p, q)
score_max(p, q) == IF score_lt(p, q) THEN q ELSE p

\* fuzz.ratio: the normalized Indel similarity, 100 * 2 * lcs / (len1 + len2)
ratio(a, b) ==
    IF Len(a) + Len(b) = 0 THEN <<100, 1>>
    ELSE <<200 * lcs(a, b), Len(a) + Len(b)>>

\* the windows of the longer string partial_ratio aligns the shorter one
\* (of length n > 0) with: its prefixes and suffixes shorter than n and
\* every substring of length n
windows(long, n) ==
    {SubSeq(long, 1, i) : i \in 1..(n - 1)}
    \cup {SubSeq(long, i, i + n - 1) : i \in 1..(Len(long) - n + 1)}
    \cup {SubSeq(long, i, Len(long)) : i \in (Len(long) - n + 2)..Len(long)}

\* fuzz.partial_ratio of two non-empty strings
partial_ratio(a, b) ==
    LET short == IF Len(a) <= Len(b) THEN a ELSE b
        long == IF Len(a) <= Len(b) THEN b ELSE a
        scores == {ratio(short, w) : w \in windows(long, Len(short))}
    IN  CHOOSE m \in scores : \A x \in scores : score_ge(m, x)

\* fuzz.WRatio
WRatio(a, b) ==
    IF Len(a) = 0 \/ Len(b) = 0 THEN <<0, 1>>
    ELSE LET la == Len(a)
             lb == Len(b)
             hi == IF la >= lb THEN la ELSE lb
             lo == IF la >= lb THEN lb ELSE la
         IN  IF 2 * hi < 3 * lo                     \* len_ratio < 1.5
             THEN ratio(a, b)
             ELSE LET pr == partial_ratio(a, b)
                      scale == IF hi < 8 * lo THEN 9 ELSE 6  \* PARTIAL_SCALE * 10
                  IN  score_max(ratio(a, b), <<scale * pr[1], 10 * pr[2]>>)

\* extract_better taking a choice that scores as high as the best so far
extract_better_or_equal(score, best) ==
    /\ score_ge(score, <<SCORE_CUTOFF, 1>>)
    /\ (best[1] = 0 \/ score_ge(score, best[2]))

\* whether extractOne takes a choice of this score over the best so far
\* (best[1] is its index, 0 for none yet, best[2] its score)
extract_better(score, best) ==
    /\ score_ge(score, <<SCORE_CUTOFF, 1>>)
    /\ (best[1] = 0 \/ score_lt(best[2], score))

\* the scan of extractOne over the processed choices i..Len(choices)
RECURSIVE extract_scan(_, _, _, _)
extract_scan(query, choices, i, best) ==
    IF i > Len(choices) THEN best
    ELSE LET score == WRatio(query, choices[i])
         IN  extract_scan(query, choices, i + 1,
                          IF extract_better(score, best) THEN <<i, score>> ELSE best)

\* the index of the choice extractOne returns, 0 when it returns None
\* (the one-element sets only have each processed string computed once)
extractOne(query, choices) ==
    LET found == {extract_scan(q, c, 1, <<0, <<0, 1>> >>)[1] :
                    q \in {default_process(query)},
                    c \in {[i \in DOMAIN choices |-> default_process(choices[i])]}}
    IN  CHOOSE i \in found : TRUE

(***************************************************************************)
(* The palette file octocat/exts/utils/ryanzec_colours.json: a JSON object *)
(* from colour name to six-digit hex code, in file order, with the source  *)
(* credit under the key "_".                                               *)
(***************************************************************************)
ryanzec_colours ==
    << << <<"_">>, <<"c", "r", "e", "d", "i", "t">> >>,
       << <<"R", "e", "d">>, <<"F", "F", "0", "0", "0", "0">> >>,
       << <<"R", "o", "s", "e">>, <<"F", "F", "0", "0", "7", "F">> >>,
       << <<"A", "q", "u", "a">>, <<"0", "0", "F", "F", "F", "F">> >>,
       << <<"M", "a", "g", "e", "n", "t", "a">>, <<"F", "F", "0", "0", "F", "F">> >>,
       << <<"C", "y", "a", "n">>, <<"0", "0", "F", "F", "F", "F">> >>,
       << <<"D", "e", "r", "b", "y">>, <<"F", "F", "E", "E", "D", "8">> >> >>

(***************************************************************************)
(* State.                                                                  *)
(***************************************************************************)
VARIABLES
    colour_mapping, \* self.colour_mapping: the entries <<name, hex code>> in dict order
    request,        \* the interaction being handled: its sub-command and option values
    outcome,        \* "invoked" while the sub-command is still to run, then how its
                    \* handler ended: "sent", "no_match" or the exception raised
    response        \* what the handler sent: <<>> or one message

vars == <<colour_mapping, request, outcome, response>>

None == <<"None">>

\* del_key deleting nothing
keep_key(mapping, key) == mapping

\* del mapping[key]
del_key(mapping, key) == SelectSeq(mapping, LAMBDA e : e[1] # key)

\* Colour.__init__: json.load, then the credit entry is deleted
load_colour_mapping == del_key(ryanzec_colours, <<"_">>)

keys(mapping) == [i \in DOMAIN mapping |-> mapping[i][1]]
values(mapping) == [i \in DOMAIN mapping |-> mapping[i][2]]

Init ==
    /\ colour_mapping = load_colour_mapping
    /\ request = [sub |-> "none", values |-> <<>>]
    /\ outcome = "none"
    /\ response = <<>>

(***************************************************************************)
(* Name lookups.                                                           *)
(***************************************************************************)
\* the index of the entry _rgb_to_name names for an RGB triple, 0 for None:
\* the first entry whose hex code equals the matched choice
_rgb_to_name_index(rgb) ==
    LET match == extractOne(_rgb_to_hex(rgb), values(colour_mapping))
    IN  IF match = 0 THEN 0
        ELSE Min({i \in DOMAIN colour_mapping :
                    colour_mapping[i][2] = colour_mapping[match][2]})

_rgb_to_name(rgb) ==
    LET i == _rgb_to_name_index(rgb)
    IN  IF i = 0 THEN None ELSE colour_mapping[i][1]

\* the hex code "#..." of the best matching name, None without one
match_colour_name(input_colour_name) ==
    LET match == extractOne(input_colour_name, keys(colour_mapping))
    IN  IF match = 0 THEN None
        ELSE <<"#">> \o colour_mapping[match][2]

(***************************************************************************)
(* The handlers.  An interaction first invokes the group callback colour,  *)
(* which does nothing, then its sub-command.  Each sub-command runs to its *)
(* one await (the send) without a suspension point, so each is one step.   *)
(***************************************************************************)
\* the slash command group: a new interaction arrives, its sub-command is
\* still to run
colour ==
    /\ outcome # "invoked"
    /\ request' = [sub |-> "none", values |-> <<>>]
    /\ outcome' = "invoked"
    /\ response' = <<>>
    /\ UNCHANGED colour_mapping

raise(req, exception) ==
    /\ request' = req
    /\ outcome' = exception
    /\ response' = <<>>
    /\ UNCHANGED colour_mapping

\* send_colour_response with get_colour_conversions: the embed's title,
\* colour and one field per colour space
send_colour_response(req, rgb_tuple) ==
    IF cmyk_raises(rgb_tuple)
    THEN raise(req, "ZeroDivisionError")
    ELSE /\ request' = req
         /\ outcome' = "sent"
         /\ \E name_ \in {_rgb_to_name(rgb_tuple)},
               hsv_ \in _rgb_to_hsv(rgb_tuple), hsl_ \in _rgb_to_hsl(rgb_tuple),
               cmyk_ \in _rgb_to_cmyk(rgb_tuple) :
                response' = << [kind |-> "colour",
                                title |-> name_,
                                RGB |-> rgb_tuple,
                                HSV |-> hsv_,
                                HSL |-> hsl_,
                                CMYK |-> cmyk_,
                                Hex |-> _rgb_to_hex(rgb_tuple),
                                Name |-> name_] >>
         /\ UNCHANGED colour_mapping

\* the argument sets of the integer options
ChannelGrid == {(255 * i) \div GridSize : i \in 0..GridSize}
PercentGridValues == {(100 * i) \div PercentGrid : i \in 0..PercentGrid}
HueGridValues == {(360 * i) \div HueGrid : i \in 0..HueGrid}
ChannelArgs == ChannelGrid \cup {-1, 256}
PercentArgs == PercentGridValues \cup {-1, 101}
HueArgs == HueGridValues \cup {-1, 361}
\* triples off the grid: near one palette colour, as near to three of them,
\* of hue 359.8, and the triples that stray furthest on the way to HSV, HSL
\* or CMYK and back
ExtraTriples == {<<254, 0, 0>>, <<255, 0, 240>>, <<255, 0, 1>>,
                 <<0, 108, 254>>, <<2, 228, 230>>, <<0, 64, 65>>}
RGBTriples == (ChannelArgs \X ChannelArgs \X ChannelArgs) \cup ExtraTriples

\* in_range as "c in range(1, n)"
in_range_from_one(c, n) == c \in 1..(n - 1)

in_range(c, n) == c \in 0..(n - 1)

rgb_valid(red, green, blue) == \A c \in {red, green, blue} : in_range(c, 256)

rgb ==
    /\ outcome = "invoked"
    /\ \E t \in RGBTriples :
        LET red == t[1]
            green == t[2]
            blue == t[3]
            req == [sub |-> "rgb", values |-> <<red, green, blue>>]
        IN  IF ~rgb_valid(red, green, blue)
            THEN raise(req, "BadArgument")
            ELSE send_colour_response(req, <<red, green, blue>>)

hsx_valid(hue, a, b) == in_range(hue, 361) /\ \A c \in {a, b} : in_range(c, 101)

hsv ==
    /\ outcome = "invoked"
    /\ \E hue \in HueArgs, saturation \in PercentArgs, value \in PercentArgs :
        LET req == [sub |-> "hsv", values |-> <<hue, saturation, value>>]
        IN  IF ~hsx_valid(hue, saturation, value)
            THEN raise(req, "BadArgument")
            ELSE \E hsv_tuple \in getrgb_hsv(hue, saturation, value) :
                    send_colour_response(req, hsv_tuple)

hsl ==
    /\ outcome = "invoked"
    /\ \E hue \in HueArgs, saturation \in PercentArgs, lightness \in PercentArgs :
        LET req == [sub |-> "hsl", values |-> <<hue, saturation, lightness>>]
        IN  IF ~hsx_valid(hue, saturation, lightness)
            THEN raise(req, "BadArgument")
            ELSE \E hsl_tuple \in getrgb_hsl(hue, saturation, lightness) :
                    send_colour_response(req, hsl_tuple)

cmyk_valid(cyan, magenta, yellow, key) ==
    \A c \in {cyan, magenta, yellow, key} : in_range(c, 101)

cmyk ==
    /\ outcome = "invoked"
    /\ \E cyan \in PercentArgs, magenta \in PercentArgs, yellow \in PercentArgs,
       key \in PercentArgs :
        LET req == [sub |-> "cmyk", values |-> <<cyan, magenta, yellow, key>>]
        IN  IF ~cmyk_valid(cyan, magenta, yellow, key)
            THEN raise(req, "BadArgument")
            ELSE \E t \in cmyk_to_rgb(cyan, magenta, yellow, key) :
                    send_colour_response(req, t)

\* the arguments of the hex option: every string over HexAlphabet of at
\* most MaxShortHex characters, bare and behind a "#", and the six-digit
\* codes of HexChannels in either case, bare and behind a "#", alone and
\* followed by one, two or three more characters
HexAlphabet == {"#", "0", "a", "F", "G"}
HexChannels == {0, 10, 171, 255}
Strings(alphabet, n) == UNION {[1..k -> alphabet] : k \in 0..n}
ShortHex == Strings(HexAlphabet, MaxShortHex)
HexTails == {<<>>, <<"8">>, <<"8", "0">>, <<"G", "0">>, <<"8", "0", "1">>}
SixDigits == {SubSeq(_rgb_to_hex(t), 2, 7) : t \in HexChannels \X HexChannels \X HexChannels}
LongHex == {d \o tail : d \in SixDigits \cup {lower(x) : x \in SixDigits}, tail \in HexTails}
HexArgs == ShortHex \cup LongHex \cup {<<"#">> \o c : c \in ShortHex \cup LongHex}

\* the condition under which hex raises BadArgument, on the code with its
\* leading "#"
hex_invalid(hex_code) ==
    \/ Len(hex_code) \notin {4, 5, 7, 9}
    \/ \E i \in 2..Len(hex_code) : hex_code[i] \notin hexdigits

\* what hex computes from its argument: the exception it raises ("" for
\* none) and the RGB triple it passes on
hex_tuple(arg) ==
    IF Len(arg) = 0
    THEN [raised |-> "IndexError", rgb |-> <<>>]          \* hex_code[0] of ""
    ELSE LET hex_code == IF arg[1] # "#" THEN <<"#">> \o arg ELSE arg
             t == getrgb_hex(hex_code)
         IN  IF hex_invalid(hex_code) THEN [raised |-> "BadArgument", rgb |-> <<>>]
             ELSE IF t = <<>> THEN [raised |-> "ValueError", rgb |-> <<>>]
             ELSE [raised |-> "", rgb |-> IF Len(t) = 4 THEN SubSeq(t, 1, 3) ELSE t]

hex ==
    /\ outcome = "invoked"
    /\ \E arg \in HexArgs :
        LET req == [sub |-> "hex", values |-> <<arg>>]
        IN  \E r \in {hex_tuple(arg)} :
                IF r.raised # "" THEN raise(req, r.raised)
                ELSE send_colour_response(req, r.rgb)

\* the arguments of the name option
NameAlphabet == {"r", "e", "d", "R", "z"}
ExtraNames == {<<"z", "z", "z", "z", "z">>, <<"M", "A", "G", "E", "N", "T", "A">>,
               <<"c", "y", "a", "n">>, <<"d", "e", "r", "b">>}
NameArgs == Strings(NameAlphabet, MaxNameLen) \cup ExtraNames

name ==
    /\ outcome = "invoked"
    /\ \E user_colour_name \in NameArgs :
        LET req == [sub |-> "name", values |-> <<user_colour_name>>]
        IN  \E hex_colour \in {match_colour_name(user_colour_name)} :
                IF hex_colour = None
                THEN /\ request' = req
                     /\ outcome' = "no_match"
                     /\ response' = << [kind |-> "error"] >>
                     /\ UNCHANGED colour_mapping
                ELSE \E t \in {getrgb_hex(hex_colour)} :
                        IF t = <<>> THEN raise(req, "ValueError")
                        ELSE send_colour_response(req, t)

\* random.choice(list(self.colour_mapping.values()))
random ==
    /\ outcome = "invoked"
    /\ \E i \in DOMAIN colour_mapping :
        LET req == [sub |-> "random", values |-> <<>>]
        IN  \E t \in {getrgb_hex(<<"#">> \o values(colour_mapping)[i])} :
                IF t = <<>> THEN raise(req, "ValueError")
                ELSE send_colour_response(req, t)

Next == colour \/ rgb \/ hsv \/ hsl \/ cmyk \/ hex \/ name \/ random

Spec == Init /\ [][Next]_vars

(***************************************************************************)
(* Properties.                                                             *)
(***************************************************************************)
Sent == outcome = "sent"
Shown == response[1]
Abs(n) == IF n < 0 THEN -n ELSE n
\* every channel of back is within tol of the same channel of orig
Within(back, orig, tol) == \A i \in 1..3 : Abs(back[i] - orig[i]) <= tol
\* the largest difference of two triples in one channel
Deviation(back, orig) == Max({Abs(back[i] - orig[i]) : i \in 1..3})

\* C1 as stated: the CMYK shown for an RGB triple converts back (cmyk) to an
\* RGB triple within 1 of it in every channel.
C1_CMYKRoundTripWithin1 ==
    Sent => \A back \in cmyk_to_rgb(Shown.CMYK[1], Shown.CMYK[2], Shown.CMYK[3], Shown.CMYK[4]) :
                Within(back, Shown.RGB, 1)

\* C1 amended: the CMYK shown for an RGB triple converts back to an RGB
\* triple within 2 of it in every channel.
C1_CMYKRoundTripWithin2 ==
    Sent => \A back \in cmyk_to_rgb(Shown.CMYK[1], Shown.CMYK[2], Shown.CMYK[3], Shown.CMYK[4]) :
                Within(back, Shown.RGB, 2)

\* (0, 64, 65) is shown as CMYK (100, 2, 0, 75), which converts back to (0, 62, 64)
C1_Witness ==
    /\ Sent /\ request.sub = "rgb" /\ Shown.RGB = <<0, 64, 65>>
    /\ \E back \in cmyk_to_rgb(Shown.CMYK[1], Shown.CMYK[2], Shown.CMYK[3], Shown.CMYK[4]) :
            Deviation(back, Shown.RGB) = 2

\* C2 as stated: the HSV and the HSL shown for an RGB triple each convert
\* back (hsv, hsl) to an RGB triple within 1 of it in every channel.
C2_HSVHSLRoundTripWithin1 ==
    Sent => /\ \A back \in getrgb_hsv(Shown.HSV[1], Shown.HSV[2], Shown.HSV[3]) :
                    Within(back, Shown.RGB, 1)
            /\ \A back \in getrgb_hsl(Shown.HSL[1], Shown.HSL[2], Shown.HSL[3]) :
                    Within(back, Shown.RGB, 1)

\* C2 amended: the HSV shown converts back to an RGB triple within 3 of the
\* original in every channel, the HSL shown to one within 5.
C2_HSVWithin3HSLWithin5 ==
    Sent => /\ \A back \in getrgb_hsv(Shown.HSV[1], Shown.HSV[2], Shown.HSV[3]) :
                    Within(back, Shown.RGB, 3)
            /\ \A back \in getrgb_hsl(Shown.HSL[1], Shown.HSL[2], Shown.HSL[3]) :
                    Within(back, Shown.RGB, 5)

\* (2, 228, 230) is shown as HSL (181, 98, 45), which converts back to (2, 223, 227)
C2_Witness ==
    /\ Sent /\ request.sub = "rgb" /\ Shown.RGB = <<2, 228, 230>>
    /\ \E back \in getrgb_hsl(Shown.HSL[1], Shown.HSL[2], Shown.HSL[3]) :
            Deviation(back, Shown.RGB) = 5

\* C4: rgb raises BadArgument exactly when a channel is outside 0..255, hsv
\* and hsl exactly when hue is outside 0..360 or another field outside
\* 0..100, cmyk exactly when a field is outside 0..100; a handler that
\* raised sent nothing, and one that did not raise sent the colour.
C4_RangeValidation ==
    LET v == request.values
        bad == CASE request.sub = "rgb" -> \E i \in 1..3 : v[i] < 0 \/ v[i] > 255
                 [] request.sub \in {"hsv", "hsl"} ->
                        v[1] < 0 \/ v[1] > 360 \/ \E i \in 2..3 : v[i] < 0 \/ v[i] > 100
                 [] request.sub = "cmyk" -> \E i \in 1..4 : v[i] < 0 \/ v[i] > 100
    IN  request.sub \in {"rgb", "hsv", "hsl", "cmyk"} =>
            /\ (outcome = "BadArgument") <=> bad
            /\ outcome = "BadArgument" => response = <<>>
            /\ outcome # "BadArgument" => Sent /\ Shown.kind = "colour"

\* hsv with hue 361 raised BadArgument and sent nothing
C4_Witness ==
    /\ request.sub = "hsv" /\ request.values = <<361, 0, 0>>
    /\ outcome = "BadArgument" /\ response = <<>>

\* C5: every value shown lies in its range: RGB channels in 0..255 (whatever
\* the input model), hue in 0..360, saturation, value and lightness in
\* 0..100, and the four CMYK components in 0..100.
C5_ValuesInRange ==
    Sent => /\ \A i \in 1..3 : Shown.RGB[i] \in 0..255
            /\ Shown.HSV[1] \in 0..360 /\ Shown.HSV[2] \in 0..100 /\ Shown.HSV[3] \in 0..100
            /\ Shown.HSL[1] \in 0..360 /\ Shown.HSL[2] \in 0..100 /\ Shown.HSL[3] \in 0..100
            /\ \A i \in 1..4 : Shown.CMYK[i] \in 0..100

\* (255, 0, 1), of hue 359.8 degrees, is shown with hue 360
C5_Witness ==
    /\ Sent /\ request.sub = "rgb" /\ Shown.RGB = <<255, 0, 1>>
    /\ Shown.HSV[1] = 360 /\ Shown.HSL[1] = 360

\* C6: black is shown as CMYK (0, 0, 0, 100) and no handler ends in
\* ZeroDivisionError: for any other RGB triple shown the divisor is not 0;
\* and cmyk with key 100 gives black whatever c, m and y are.
C6_BlackAndNoZeroDivision ==
    /\ outcome # "ZeroDivisionError"
    /\ Sent => /\ Shown.RGB = <<0, 0, 0>> => Shown.CMYK = <<0, 0, 0, 100>>
               /\ Shown.RGB # <<0, 0, 0>> => cmyk_divisor(Shown.RGB) # 0
    /\ (request.sub = "cmyk" /\ request.values[4] = 100 /\ outcome # "BadArgument")
            => Sent /\ Shown.RGB = <<0, 0, 0>>

\* cmyk(50, 25, 0, 100) gave black, shown as CMYK (0, 0, 0, 100)
C6_Witness ==
    /\ Sent /\ request.sub = "cmyk" /\ request.values = <<50, 25, 0, 100>>
    /\ Shown.RGB = <<0, 0, 0>> /\ Shown.CMYK = <<0, 0, 0, 100>>

\* a hex argument as the hex option documents it: after at most one leading
\* "#", exactly 3, 4, 6 or 8 hexadecimal digits
HexBody(arg) == IF Len(arg) > 0 /\ arg[1] = "#" THEN Tail(arg) ELSE arg
HexWellFormed(arg) ==
    /\ Len(HexBody(arg)) \in {3, 4, 6, 8}
    /\ \A i \in DOMAIN HexBody(arg) : HexBody(arg)[i] \in hexdigits

\* the RGB triple a well-formed hex argument stands for: a 3- or 4-digit
\* code doubles each of its first three digits, a longer one gives its first
\* six digits, two per channel
ExpectedHexRGB(arg) ==
    LET b == HexBody(arg)
        d == IF Len(b) \in {3, 4} THEN <<b[1], b[1], b[2], b[2], b[3], b[3]>> ELSE SubSeq(b, 1, 6)
    IN  [k \in 1..3 |-> 16 * Int16Of[d[2 * k - 1]] + Int16Of[d[2 * k]]]

\* C3 as stated: hex raises BadArgument, and sends nothing, for every
\* argument that is not well formed, the empty string included.
C3_MalformedHexRaisesBadArgument ==
    (request.sub = "hex" /\ ~HexWellFormed(request.values[1]))
        => outcome = "BadArgument" /\ response = <<>>

\* C3 apart from the empty string: every other argument that is not well
\* formed makes hex raise BadArgument.
C3_MalformedNonEmptyHexRaisesBadArgument ==
    (request.sub = "hex" /\ ~HexWellFormed(request.values[1]) /\ request.values[1] # <<>>)
        => outcome = "BadArgument" /\ response = <<>>

\* C7: hex accepts every well-formed argument and sends the RGB triple it
\* stands for, three channels whatever the alpha digits; the same argument
\* without (or with) the leading "#", in lower case or in upper case gives
\* the same triple; and the hex code shown for any RGB triple is "#" and two
\* upper-case hexadecimal digits per channel, which hex reads back as that
\* triple.
C7_HexReading ==
    /\ (request.sub = "hex" /\ HexWellFormed(request.values[1])) => Sent
    /\ (request.sub = "hex" /\ Sent) =>
            LET arg == request.values[1]
                other == IF arg[1] = "#" THEN Tail(arg) ELSE <<"#">> \o arg
            IN  /\ Shown.RGB = ExpectedHexRGB(arg)
                /\ Len(Shown.RGB) = 3
                /\ \A a \in {other, lower(arg), upper(arg)} :
                        hex_tuple(a) = [raised |-> "", rgb |-> Shown.RGB]
    /\ Sent =>
            /\ Len(Shown.Hex) = 7 /\ Shown.Hex[1] = "#"
            /\ \A i \in 2..7 : Shown.Hex[i] \in hexdigits /\ Shown.Hex[i] = upper_char(Shown.Hex[i])
            /\ \A k \in 1..3 :
                    Shown.RGB[k] = 16 * Int16Of[Shown.Hex[2 * k]] + Int16Of[Shown.Hex[2 * k + 1]]
            /\ hex_tuple(Shown.Hex) = [raised |-> "", rgb |-> Shown.RGB]

\* the four-digit code aF0F without "#" gave (170, 255, 0), its alpha digit dropped
C7_Witness ==
    /\ Sent /\ request.sub = "hex" /\ request.values[1] = <<"a", "F", "0", "F">>
    /\ Shown.RGB = <<170, 255, 0>>

\* the similarity of two hex codes, "#" and letter case apart, and of two
\* names, letter case apart
HexSimilarity(a, b) == WRatio(lower(HexBody(a)), lower(HexBody(b)))
NameSimilarity(a, b) == WRatio(lower(a), lower(b))
\* the entries scoring at least 80 and no lower than any other; scores[i] is
\* the score of entry i
Best(scores) ==
    LET good == {i \in DOMAIN scores : score_ge(scores[i], <<80, 1>>)}
    IN  {i \in good : \A j \in good : score_ge(scores[i], scores[j])}

\* C8: the name shown for an RGB triple is that of the first of the palette
\* entries whose hex code scores highest against the triple's hex code,
\* when that score is at least 80, and None when no entry scores 80; scores
\* lie in 0..100 and an identical code scores 100; (254, 0, 0) is named Red
\* after FF0000.
C8_NameOfBestHex ==
    Sent => \A scores \in {[i \in DOMAIN colour_mapping |->
                                HexSimilarity(Shown.Hex, colour_mapping[i][2])]} :
                /\ \A i \in DOMAIN scores :
                        /\ score_ge(scores[i], <<0, 1>>) /\ score_ge(<<100, 1>>, scores[i])
                        /\ <<"#">> \o colour_mapping[i][2] = Shown.Hex
                                => scores[i][1] = 100 * scores[i][2]
                /\ Shown.Name = IF Best(scores) = {} THEN None
                                ELSE colour_mapping[Min(Best(scores))][1]
                /\ Shown.title = Shown.Name
                /\ Shown.RGB = <<254, 0, 0>> => Shown.Name = <<"R", "e", "d">>

\* (255, 0, 240) is as near to Red, Rose and Magenta; it is named Red, the first
C8_Witness ==
    /\ Sent /\ Shown.RGB = <<255, 0, 240>> /\ Shown.Name = <<"R", "e", "d">>
    /\ \A i \in {1, 2, 4} : HexSimilarity(Shown.Hex, colour_mapping[i][2]) = <<1000, 12>>

\* C9: name scores its argument against every palette name, letter case
\* apart; when the best score is at least 80 it sends the RGB triple of that
\* entry's hex code (the first such entry), otherwise it answers that no
\* colour was found and sends no colour; the argument's letter case does not
\* change the outcome; "redd" gives Red's FF0000 and "zzzzz" finds nothing.
C9_NameLookup ==
    request.sub = "name" =>
        \A scores \in {[i \in DOMAIN colour_mapping |->
                            NameSimilarity(request.values[1], colour_mapping[i][1])]} :
            /\ Best(scores) = {} => outcome = "no_match" /\ Shown.kind = "error"
            /\ Best(scores) # {} =>
                    /\ Sent /\ Shown.kind = "colour"
                    /\ Shown.RGB = ExpectedHexRGB(colour_mapping[Min(Best(scores))][2])
            /\ \A q \in {lower(request.values[1]), upper(request.values[1])} :
                    match_colour_name(q) = match_colour_name(request.values[1])
            /\ request.values[1] = <<"r", "e", "d", "d">> => Sent /\ Shown.RGB = <<255, 0, 0>>
            /\ request.values[1] = <<"z", "z", "z", "z", "z">> => outcome = "no_match"

\* "redd" gave Red's (255, 0, 0)
C9_Witness ==
    /\ request.sub = "name" /\ request.values[1] = <<"r", "e", "d", "d">>
    /\ Sent /\ Shown.RGB = <<255, 0, 0>> /\ Shown.Name = <<"R", "e", "d">>

\* the palette has no entry "_", and a random request sent the RGB triple of
\* the hex code of one of the palette's entries
C10_RandomInPalette ==
    /\ \A i \in DOMAIN colour_mapping : colour_mapping[i][1] # <<"_">>
    /\ request.sub = "random" =>
            /\ Sent
            /\ \E i \in DOMAIN colour_mapping :
                    Shown.RGB = ExpectedHexRGB(colour_mapping[i][2])
\* C10: once loaded the palette is never changed by any request, it never
\* holds the reserved entry "_", and every random request answers with the
\* RGB triple of the hex code of one of its entries.
C10_PaletteFixedRandomInPalette ==
    [][colour_mapping' = colour_mapping]_vars /\ []C10_RandomInPalette

\* random sent Magenta's (255, 0, 255), from a palette one entry shorter than the file
C10_Witness ==
    /\ request.sub = "random" /\ Sent /\ Shown.RGB = <<255, 0, 255>>
    /\ Len(colour_mapping) = Len(ryanzec_colours) - 1

====
